---- MODULE Spec2Model ----
(***************************************************************************)
(* Model of the suggestion-and-rendering pipeline of the data-analysis     *)
(* backend: services/viz_service.py (oracle-assisted, "ai" mode),          *)
(* services/manual_viz_service.py (rule-based, "manual" mode),             *)
(* services/viz_cache.py and services/excel_reader_service.py.             *)
(*                                                                         *)
(* Python values are modelled as follows.                                  *)
(*  - a str is a sequence of one-character strings, so that str.lower(),   *)
(*    str.strip() and the "in" substring test are computed, not assumed;   *)
(*  - a JSON field value is a record [t, s]: its type tag and its str();   *)
(*  - a raised exception is the field exc of a result record.              *)
(***************************************************************************)
EXTENDS Integers, Sequences, FiniteSets, TLC

\* ------------------------------------------------------------------ bounds
\* Longest raw candidate list drawn freely from the item pool.
MaxRaw == 2

\* ------------------------------------------------------------- python str
UpperChars == <<"A","B","C","D","E","F","G","H","I","J","K","L","M",
                "N","O","P","Q","R","S","T","U","V","W","X","Y","Z">>
LowerChars == <<"a","b","c","d","e","f","g","h","i","j","k","l","m",
                "n","o","p","q","r","s","t","u","v","w","x","y","z">>

LowerChar(c) ==
  IF \E i \in DOMAIN UpperChars : UpperChars[i] = c
  THEN LowerChars[CHOOSE i \in DOMAIN UpperChars : UpperChars[i] = c]
  ELSE c

\* str.lower()
Lower(s) == [i \in 1..Len(s) |-> LowerChar(s[i])]

\* str.strip(): drops leading and trailing whitespace
RECURSIVE LStrip(_)
LStrip(s) == IF s # <<>> /\ Head(s) = " " THEN LStrip(Tail(s)) ELSE s
RECURSIVE RStrip(_)
RStrip(s) ==
  IF s # <<>> /\ s[Len(s)] = " " THEN RStrip(SubSeq(s, 1, Len(s) - 1)) ELSE s
Strip(s) == RStrip(LStrip(s))

\* sub in s (substring test)
Contains(s, sub) ==
  \E i \in 1..(Len(s) - Len(sub) + 1) : SubSeq(s, i, i + Len(sub) - 1) = sub

\* ------------------------------------------------------------ JSON values
JStr(s)  == [t |-> "str", s |-> s]
JNull    == [t |-> "null", s |-> <<"N","o","n","e">>]
JMissing == [t |-> "missing", s |-> <<>>]
JList(s) == [t |-> "list", s |-> s]
JObj(s)  == [t |-> "obj", s |-> s]

\* dict.get(key, default): a missing key gives the default
Get(item, key, default) ==
  IF item[key].t = "missing" THEN default ELSE item[key]

\* v is None
IsNone(v) == v.t \in {"null", "missing"}

\* hash(v) raises TypeError for a list or a dict
Unhashable(v) == v.t \in {"list", "obj"}

\* str(v)
PyStr(v) == v.s

\* an element of a raw candidate list: a dict with (possibly missing) keys,
\* or something that is not a dict
Dict(ct, x, y, d) ==
  [isdict |-> TRUE, chart_type |-> ct, x |-> x, y |-> y, description |-> d]
NonDict ==
  [isdict |-> FALSE, chart_type |-> JMissing, x |-> JMissing,
   y |-> JMissing, description |-> JMissing]

\* a top-level Python value handed around as raw_suggestions
PyNone == [t |-> "none", truthy |-> FALSE, items |-> <<>>]
PyList(items) == [t |-> "list", truthy |-> items # <<>>, items |-> items]
PyOther(t, truthy) == [t |-> t, truthy |-> truthy, items |-> <<>>]

\* results of operations that may raise
Ok(v)     == [exc |-> "none", val |-> v]
Raise(e)  == [exc |-> e, val |-> <<>>]

\* ---------------------------------------------------------------- strings
s_histogram == <<"h","i","s","t","o","g","r","a","m">>
s_scatter   == <<"s","c","a","t","t","e","r">>
s_bar       == <<"b","a","r">>
s_countplot == <<"c","o","u","n","t","p","l","o","t">>
s_line      == <<"l","i","n","e">>

n_amt  == <<"a","m","t">>
n_qty  == <<"q","t","y">>
n_reg  == <<"r","e","g">>
n_Id   == <<"I","d">>
n_day  == <<"d","a","y">>
n_zzz  == <<"z","z","z">>

\* ----------------------------------------------------------------- tables
\* A table (DataFrame) is the sequence of its columns. A column carries its
\* name, its dtype, and the counts the code reads from its values:
\*   count    series.count(): the non-missing values
\*   unique   series.nunique(): the distinct non-missing values
\*   parsable how many of the non-missing values pd.to_datetime parses
\*   utc      whether the parsed values carry the UTC offset (text such as
\*            2024-01-05T10:00:00Z), which makes the parsed column tz-aware
Column(name, dtype, count, unique, parsable) ==
  [name |-> name, dtype |-> dtype, count |-> count, unique |-> unique,
   parsable |-> parsable, utc |-> FALSE]

c_amt == Column(n_amt, "number", 10, 8, 0)
c_qty == Column(n_qty, "number", 10, 10, 0)
c_reg == Column(n_reg, "object", 10, 3, 0)
c_Id  == Column(n_Id, "object", 10, 10, 0)
c_day == Column(n_day, "object", 10, 6, 7)
c_Date == Column(<<"D","a","t","e">>, "object", 10, 10, 0)

Columns(df) == {df[i].name : i \in DOMAIN df}

\* df.select_dtypes(include=...).columns.tolist()
RECURSIVE select_dtypes(_, _)
select_dtypes(df, dtypes) ==
  IF df = <<>> THEN <<>>
  ELSE (IF Head(df).dtype \in dtypes THEN <<Head(df).name>> ELSE <<>>)
       \o select_dtypes(Tail(df), dtypes)

\* _prepare_df_for_viz: a copy in which every object column, at least 70% of
\* whose non-null values parse as timestamps, holds the parsed timestamps
\* (dtype datetime64[ns], or datetime64[ns, UTC] when they carry the offset)
prepare_column(col) ==
  IF col.dtype = "object"
     /\ col.count > 0 /\ col.parsable * 10 >= 7 * col.count
  THEN [col EXCEPT !.dtype = IF col.utc THEN "datetimetz" ELSE "datetime",
                   !.count = col.parsable,
                   !.unique = IF col.unique <= col.parsable
                             THEN col.unique ELSE col.parsable]
  ELSE col

prepare_df_for_viz(df) == [i \in DOMAIN df |-> prepare_column(df[i])]

\* a preparation that assigns the parsed columns to the caller's table
df_raw_after_prepare_mut(df) == prepare_df_for_viz(df)

\* the caller's table once _prepare_df_for_viz(df) has returned: df = df.copy()
\* comes first, so the assignments df[col] = parsed reach the copy only
df_raw_after_prepare(df) == df

\* ------------------------------------------------- oracle (viz_service.py)
\* What the external service does with one request. The text of a reply is
\* described by what the standard JSON parser makes of it: of the whole text
\* (full), of the part from the first "[" to the last "]" (list, when both
\* characters occur: has_list) and of the part from the first "{" to the last
\* "}" (obj, when both occur: has_obj).
Parsed(v)  == [ok |-> TRUE, v |-> v]
NoParse    == [ok |-> FALSE, v |-> PyNone]
ParsedObj(item) == [ok |-> TRUE, v |-> item]
NoParseObj == [ok |-> FALSE, v |-> NonDict]

Reply(kind, full, has_list, list, has_obj, obj) ==
  [kind |-> kind, full |-> full, has_list |-> has_list, list |-> list,
   has_obj |-> has_obj, obj |-> obj]

\* client.chat.completions.create raises (network, auth, timeout)
ReplyApiError  == Reply("api_error", NoParse, FALSE, NoParse, FALSE, NoParseObj)
\* a reply whose list of choices is empty
ReplyNoChoices == Reply("no_choices", NoParse, FALSE, NoParse, FALSE, NoParseObj)
\* a reply whose message content is null
ReplyNullContent ==
  Reply("null_content", NoParse, FALSE, NoParse, FALSE, NoParseObj)
\* a reply whose whole text is the JSON value v
ReplyJSON(v) == Reply("text", Parsed(v), FALSE, NoParse, FALSE, NoParseObj)
\* prose around a JSON list
ReplyProseList(items) ==
  Reply("text", NoParse, TRUE, Parsed(PyList(items)), FALSE, NoParseObj)
\* prose around one JSON object
ReplyProseObj(item) ==
  Reply("text", NoParse, FALSE, NoParse, TRUE, ParsedObj(item))
\* prose holding a bracketed JSON value such as [1] before one JSON object
ReplyNotedObj(item) ==
  Reply("text", NoParse, TRUE, Parsed(PyList(<<NonDict>>)), TRUE,
        ParsedObj(item))
\* text with brackets and braces none of which parses
ReplyGarbage == Reply("text", NoParse, TRUE, NoParse, TRUE, NoParseObj)

\* ask_llm_for_visualizations(df): None, a parsed JSON value, or an exception
ask_llm_for_visualizations(client, reply) ==
  IF ~client THEN Ok(PyNone)
  ELSE IF reply.kind = "api_error" THEN Ok(PyNone)
  ELSE IF reply.kind = "no_choices" THEN Raise("IndexError")
  ELSE IF reply.kind = "null_content" THEN Raise("AttributeError")
  ELSE IF reply.full.ok THEN Ok(reply.full.v)
  ELSE IF reply.has_list /\ reply.list.ok THEN Ok(reply.list.v)
  ELSE IF reply.has_obj /\ reply.obj.ok THEN Ok(PyList(<<reply.obj.v>>))
  ELSE Ok(PyNone)

\* ----------------------------------------------- fallback (viz_service.py)
d_trend_q == <<"Trend of '">>
d_over_by == <<"' over time by '">>
d_dist_q  == <<"Distribution of numeric column '">>
d_cat_q   == <<"Category counts for '">>
d_q_dot   == <<"'.">>

_numeric_cols(df) == select_dtypes(df, {"number"})
_cat_cols(df)     == select_dtypes(df, {"object", "category"})
\* a fallback that finds no datetime column
_date_cols_mut(df) == <<>>

_date_cols(df)    == select_dtypes(df, {"datetime", "datetimetz"})

_fallback_first(df) ==
  LET numeric_cols == _numeric_cols(df)
      date_cols == _date_cols(df)
  IN IF date_cols # <<>> /\ numeric_cols # <<>>
     THEN <<Dict(JStr(s_line), JStr(date_cols[1]), JStr(numeric_cols[1]),
                 JStr(d_trend_q \o numeric_cols[1] \o d_over_by \o date_cols[1]
                      \o d_q_dot))>>
     ELSE IF numeric_cols # <<>>
     THEN <<Dict(JStr(s_histogram), JStr(numeric_cols[1]), JNull,
                 JStr(d_dist_q \o numeric_cols[1] \o d_q_dot))>>
     ELSE <<>>

_fallback_second(df) ==
  LET cat_cols == _cat_cols(df)
  IN IF cat_cols # <<>>
     THEN <<Dict(JStr(s_countplot), JStr(cat_cols[1]), JNull,
                 JStr(d_cat_q \o cat_cols[1] \o d_q_dot))>>
     ELSE <<>>

_fallback_suggestions(df) == _fallback_first(df) \o _fallback_second(df)

\* ------------------------------------- validator of viz_service.py ("ai")
max_per_sheet == 12

\* a validator for which no chart type needs a y
ai_requires_y_mut == {}

ai_requires_y == {s_scatter, s_line}
ai_chart_types == {s_histogram, s_scatter, s_bar, s_countplot, s_line}

\* a validator that does not look the name up in the table's columns
ai_in_cols_mut(v, cols) == TRUE

\* a validator that takes no column whose name holds 'id'
ai_in_cols_noid_mut(v, cols) ==
  v.t = "str" /\ v.s \in cols /\ ~Contains(Lower(v.s), <<"i","d">>)

\* x not in cols / y not in cols: a column name is a str
ai_in_cols(v, cols) == v.t = "str" /\ v.s \in cols

\* a validator that never finds a key among the keys seen
ai_seen_mut(key, seen) == FALSE

\* key in seen
ai_seen(key, seen) == key \in seen

ai_check_item(cols, item, seen) ==
  IF ~item.isdict THEN "skip"
  ELSE LET chart_type == Lower(Strip(PyStr(Get(item, "chart_type", JStr(<<>>)))))
           x == Get(item, "x", JNull)
           y == Get(item, "y", JNull)
       IN IF chart_type = <<>> \/ IsNone(x) THEN "skip"
          ELSE IF Unhashable(x) THEN "raise"
          ELSE IF ~ai_in_cols(x, cols) THEN "skip"
          ELSE IF ~IsNone(y) /\ Unhashable(y) THEN "raise"
          ELSE IF ~IsNone(y) /\ ~ai_in_cols(y, cols) THEN "skip"
          ELSE IF chart_type \in ai_requires_y /\ IsNone(y) THEN "skip"
          ELSE IF chart_type \notin ai_chart_types THEN "skip"
          ELSE IF ai_seen(<<chart_type, x, (IF IsNone(y) THEN JNull ELSE y)>>,
                          seen)
          THEN "skip"
          ELSE "keep"

ai_clean_item(item) ==
  LET y == Get(item, "y", JNull)
  IN Dict(JStr(Lower(Strip(PyStr(Get(item, "chart_type", JStr(<<>>)))))),
          Get(item, "x", JNull),
          IF IsNone(y) THEN JNull ELSE y,
          Get(item, "description", JStr(<<>>)))

ai_key(c) == <<c.chart_type.s, c.x, c.y>>

RECURSIVE ai_clean_loop(_, _, _, _, _)
ai_clean_loop(cols, items, seen, cleaned, cap) ==
  IF items = <<>> THEN Ok(cleaned)
  ELSE LET verdict == ai_check_item(cols, Head(items), seen)
       IN IF verdict = "raise" THEN Raise("TypeError")
          ELSE IF verdict = "skip"
          THEN ai_clean_loop(cols, Tail(items), seen, cleaned, cap)
          ELSE LET c == ai_clean_item(Head(items))
               IN IF Len(cleaned) + 1 >= cap
                  THEN Ok(Append(cleaned, c))
                  ELSE ai_clean_loop(cols, Tail(items), seen \cup {ai_key(c)},
                                     Append(cleaned, c), cap)

\* a validator that goes through the whole list
ai_clean_and_validate_suggestions_mut(df, raw_suggestions) ==
  IF ~raw_suggestions.truthy \/ raw_suggestions.t # "list" THEN Ok(<<>>)
  ELSE ai_clean_loop(Columns(df), raw_suggestions.items, {}, <<>>,
                     Len(raw_suggestions.items) + 1)

ai_clean_and_validate_suggestions(df, raw_suggestions) ==
  IF ~raw_suggestions.truthy \/ raw_suggestions.t # "list" THEN Ok(<<>>)
  ELSE ai_clean_loop(Columns(df), raw_suggestions.items, {}, <<>>,
                     max_per_sheet)

\* a pipeline that returns what validation leaves, even when that is nothing
ai_get_viz_suggestions_for_df_mut(df, client, reply) ==
  LET df_prepared == prepare_df_for_viz(df)
      asked == ask_llm_for_visualizations(client, reply)
  IN IF asked.exc # "none" THEN Raise(asked.exc)
     ELSE ai_clean_and_validate_suggestions(
            df_prepared,
            IF ~asked.val.truthy
            THEN PyList(_fallback_suggestions(df_prepared))
            ELSE asked.val)

\* _get_viz_suggestions_for_df of viz_service.py
ai_get_viz_suggestions_for_df(df, client, reply) ==
  LET df_prepared == prepare_df_for_viz(df)
      asked == ask_llm_for_visualizations(client, reply)
  IN IF asked.exc # "none" THEN Raise(asked.exc)
     ELSE LET raw_suggestions ==
                IF ~asked.val.truthy
                THEN PyList(_fallback_suggestions(df_prepared))
                ELSE asked.val
              cleaned ==
                ai_clean_and_validate_suggestions(df_prepared, raw_suggestions)
          IN IF cleaned.exc # "none" THEN cleaned
             ELSE IF cleaned.val = <<>>
             THEN Ok(_fallback_suggestions(df_prepared))
             ELSE cleaned

\* ------------------------------------ type inference (manual_viz_service)
s_id   == <<"i","d">>
s_date == <<"d","a","t","e">>
s_time == <<"t","i","m","e">>

\* the kind get_column_datatype gives one column. np.issubdtype(dtype,
\* np.datetime64) cannot interpret the tz-aware dtype and raises TypeError.
column_datatype(col) ==
  IF col.dtype = "number" THEN "numerical"
  ELSE IF col.dtype = "datetimetz" THEN "TypeError"
  ELSE IF col.dtype = "datetime"
          \/ \E elem \in {s_date, s_time} : Contains(Lower(col.name), elem)
  THEN "datetime"
  ELSE IF col.count = col.unique
  THEN (IF Contains(Lower(col.name), s_id)
        THEN "primary_key" ELSE "distinct_categorical")
  ELSE (IF Contains(Lower(col.name), s_id)
        THEN "foreign_key" ELSE "categorical")

\* get_column_datatype(df): the kinds, in column order
get_column_datatype(df) ==
  IF \E i \in DOMAIN df : column_datatype(df[i]) = "TypeError"
  THEN Raise("TypeError")
  ELSE Ok([i \in DOMAIN df |-> column_datatype(df[i])])

\* ------------------------------------------ summary types (stats_service)
\* the "type" get_statistical_summary reports for one column
stats_column_type(col) ==
  IF col.dtype = "number" THEN "numerical"
  ELSE IF col.count = col.unique
  THEN (IF Contains(Lower(col.name), s_id)
        THEN "primary_key" ELSE "distinct_categorical")
  ELSE IF Contains(Lower(col.name), s_id) THEN "foreign_key"
  ELSE IF Contains(Lower(col.name), s_date) \/ Contains(Lower(col.name), s_time)
  THEN "datetime"
  ELSE "categorical"

\* summary[col]["type"] of get_statistical_summary, in column order
get_statistical_summary(df) == [i \in DOMAIN df |-> stats_column_type(df[i])]

\* ------------------------------- rule-based generator (manual_viz_service)
d_count == <<"Count of ">>
d_dist  == <<"Distribution of ">>
d_trend == <<"Trend of ">>
d_rel   == <<"Relationship between ">>
d_and   == <<" and ">>
d_over  == <<" over date">>

RECURSIVE manual_per_column(_, _)
manual_per_column(df, datatype) ==
  IF df = <<>> THEN <<>>
  ELSE (IF Head(datatype) = "categorical"
        THEN <<Dict(JStr(s_bar), JStr(Head(df).name), JNull,
                    JStr(d_count \o Head(df).name))>>
        ELSE IF Head(datatype) = "numerical"
        THEN <<Dict(JStr(s_histogram), JStr(Head(df).name), JNull,
                    JStr(d_dist \o Head(df).name))>>
        ELSE <<>>)
       \o manual_per_column(Tail(df), Tail(datatype))

\* the names of the columns of one kind, in column order
RECURSIVE columns_of_kind(_, _, _)
columns_of_kind(df, datatype, kind) ==
  IF df = <<>> THEN <<>>
  ELSE (IF Head(datatype) = kind THEN <<Head(df).name>> ELSE <<>>)
       \o columns_of_kind(Tail(df), Tail(datatype), kind)

manual_scatter(a, b) ==
  Dict(JStr(s_scatter), JStr(a), JStr(b), JStr(d_rel \o a \o d_and \o b))

\* for i in range(len(numerical)-1): for j in range(i+1, len(numerical))
RECURSIVE manual_pairs(_, _, _)
manual_pairs(numerical, i, j) ==
  IF i > Len(numerical) - 1 THEN <<>>
  ELSE IF j > Len(numerical) THEN manual_pairs(numerical, i + 1, i + 2)
  ELSE <<manual_scatter(numerical[i], numerical[j])>>
       \o manual_pairs(numerical, i, j + 1)

manual_lines(date, numerical) ==
  IF Len(date) = 1
  THEN [k \in DOMAIN numerical |->
          Dict(JStr(s_line), JStr(date[1]), JStr(numerical[k]),
               JStr(d_trend \o numerical[k] \o d_over))]
  ELSE <<>>

generate_manual_suggestions(df) ==
  LET got == get_column_datatype(df)
      datatype == got.val
      numerical == columns_of_kind(df, datatype, "numerical")
      date == columns_of_kind(df, datatype, "datetime")
  IN IF got.exc # "none" THEN Raise(got.exc)
     ELSE Ok(manual_per_column(df, datatype)
             \o manual_pairs(numerical, 1, 2)
             \o manual_lines(date, numerical))

\* --------------------------- validator of manual_viz_service.py ("manual")
manual_requires_y == {s_scatter, s_line}
manual_chart_types == {s_histogram, s_scatter, s_bar, s_countplot, s_line}

\* x not in cols / y not in cols: a column name is a str
manual_in_cols(v, cols) == v.t = "str" /\ v.s \in cols

\* key in seen
manual_seen(key, seen) == key \in seen

manual_check_item(cols, item, seen) ==
  IF ~item.isdict THEN "skip"
  ELSE LET chart_type == Lower(Strip(PyStr(Get(item, "chart_type", JStr(<<>>)))))
           x == Get(item, "x", JNull)
           y == Get(item, "y", JNull)
       IN IF chart_type = <<>> \/ IsNone(x) THEN "skip"
          ELSE IF Unhashable(x) THEN "raise"
          ELSE IF ~manual_in_cols(x, cols) THEN "skip"
          ELSE IF ~IsNone(y) /\ Unhashable(y) THEN "raise"
          ELSE IF ~IsNone(y) /\ ~manual_in_cols(y, cols) THEN "skip"
          ELSE IF chart_type \in manual_requires_y /\ IsNone(y) THEN "skip"
          ELSE IF chart_type \notin manual_chart_types THEN "skip"
          ELSE IF manual_seen(<<chart_type, x, (IF IsNone(y) THEN JNull ELSE y)>>,
                          seen)
          THEN "skip"
          ELSE "keep"

manual_clean_item(item) ==
  LET y == Get(item, "y", JNull)
  IN Dict(JStr(Lower(Strip(PyStr(Get(item, "chart_type", JStr(<<>>)))))),
          Get(item, "x", JNull),
          IF IsNone(y) THEN JNull ELSE y,
          Get(item, "description", JStr(<<>>)))

manual_key(c) == <<c.chart_type.s, c.x, c.y>>

RECURSIVE manual_clean_loop(_, _, _, _)
manual_clean_loop(cols, items, seen, cleaned) ==
  IF items = <<>> THEN Ok(cleaned)
  ELSE LET verdict == manual_check_item(cols, Head(items), seen)
       IN IF verdict = "raise" THEN Raise("TypeError")
          ELSE IF verdict = "skip"
          THEN manual_clean_loop(cols, Tail(items), seen, cleaned)
          ELSE LET c == manual_clean_item(Head(items))
               IN manual_clean_loop(cols, Tail(items),
                                    seen \cup {manual_key(c)},
                                    Append(cleaned, c))

manual_clean_and_validate_suggestions(df, raw_suggestions) ==
  IF ~raw_suggestions.truthy \/ raw_suggestions.t # "list" THEN Ok(<<>>)
  ELSE manual_clean_loop(Columns(df), raw_suggestions.items, {}, <<>>)

\* _get_viz_suggestions_for_df of manual_viz_service.py
manual_get_viz_suggestions_for_df(df) ==
  LET df_prepared == prepare_df_for_viz(df)
      generated == generate_manual_suggestions(df_prepared)
  IN IF generated.exc # "none" THEN Raise(generated.exc)
     ELSE manual_clean_and_validate_suggestions(df_prepared,
                                                PyList(generated.val))

\* ------------------------------------------------------------- rendering
\* the encoded image of one chart of one table, and the null result
Png(df, chart_type, x, y) ==
  [t |-> "png", df |-> df, chart_type |-> chart_type, x |-> x, y |-> y]
NoImage ==
  [t |-> "null", df |-> <<>>, chart_type |-> JNull, x |-> JNull, y |-> JNull]

\* generate_chart(df, chart_type, x, y). draws tells whether the plotting
\* library draws the chart (TRUE) or raises while drawing (FALSE).
generate_chart(df, chart_type, x, y, draws) ==
  IF Unhashable(x) THEN Raise("TypeError")
  ELSE IF ~(x.t = "str" /\ x.s \in Columns(df)) THEN Ok(NoImage)
  ELSE IF ~IsNone(y) /\ Unhashable(y) THEN Raise("TypeError")
  ELSE IF ~IsNone(y) /\ ~(y.t = "str" /\ y.s \in Columns(df)) THEN Ok(NoImage)
  ELSE IF ~(chart_type.t = "str"
            /\ chart_type.s \in {s_histogram, s_scatter, s_bar, s_countplot,
                                 s_line})
  THEN Ok(NoImage)
  ELSE IF draws THEN Ok(Png(df, chart_type, x, y))
  ELSE Ok(NoImage)

\* _render_chart_process(task): the task's fields and its image
render_chart_process(task, draws) ==
  LET img == generate_chart(task.df, task.chart_type, task.x, task.y, draws)
  IN IF img.exc # "none" THEN Raise(img.exc)
     ELSE Ok([sheet_name |-> task.sheet_name, chart_type |-> task.chart_type,
              x |-> task.x, y |-> task.y, desc |-> task.desc,
              img |-> img.val])

\* VizConfig(chart_type=, x=, y=, description=, image_base64=): the model
\* class validates its fields; description must be a str
VizConfig(chart_type, x, y, description, image_base64) ==
  IF description.t # "str" THEN Raise("ValidationError")
  ELSE Ok([chart_type |-> chart_type, x |-> x, y |-> y,
           description |-> description, image_base64 |-> image_base64])

\* ------------------------------------------------------------ viz_cache.py
\* A cache is a function from the session ids it holds to their values.
\* get_cached_visualizations(session_id, mode): [hit, val]; dict.get gives
\* None for an absent key
get_cached_visualizations(manual, ai, session_id, mode) ==
  IF mode = "manual"
  THEN (IF session_id \in DOMAIN manual
        THEN [hit |-> TRUE, val |-> manual[session_id]]
        ELSE [hit |-> FALSE, val |-> <<>>])
  ELSE IF mode = "ai"
  THEN (IF session_id \in DOMAIN ai
        THEN [hit |-> TRUE, val |-> ai[session_id]]
        ELSE [hit |-> FALSE, val |-> <<>>])
  ELSE [hit |-> FALSE, val |-> <<>>]

Put(f, k, v) == [a \in DOMAIN f \cup {k} |-> IF a = k THEN v ELSE f[a]]

\* a store that writes the data into both caches
store_visualizations_mut(manual, ai, session_id, data, mode) ==
  IF mode = "<not passed>"
  THEN [exc |-> "TypeError", manual |-> manual, ai |-> ai]
  ELSE [exc |-> "none", manual |-> Put(manual, session_id, data),
        ai |-> Put(ai, session_id, data)]

\* store_visualizations(session_id, data, mode): mode has no default, so a
\* call that does not pass it raises TypeError before anything is stored
store_visualizations(manual, ai, session_id, data, mode) ==
  IF mode = "<not passed>"
  THEN [exc |-> "TypeError", manual |-> manual, ai |-> ai]
  ELSE IF mode = "manual"
  THEN [exc |-> "none", manual |-> Put(manual, session_id, data), ai |-> ai]
  ELSE IF mode = "ai"
  THEN [exc |-> "none", manual |-> manual, ai |-> Put(ai, session_id, data)]
  ELSE [exc |-> "none", manual |-> manual, ai |-> ai]

\* a lookup whose result is never taken
CacheTruthy_mut(cached) == FALSE

\* a dict is truthy when it is not empty; None is falsy
CacheTruthy(cached) == cached.hit /\ DOMAIN cached.val # {}

\* ------------------------------------------------- excel_reader_service.py
\* A workbook is the sequence of its sheets, each [sheet_name, df].
Sheet(name, df) == [sheet_name |-> name, df |-> df]

SheetNames(sheets) == {sheets[i].sheet_name : i \in DOMAIN sheets}

\* get_sheet_df(session_id, sheet_name)
get_sheet_df(excel, session_id, sheet_name) ==
  IF session_id \notin DOMAIN excel THEN Raise("KeyError")
  ELSE IF sheet_name \notin SheetNames(excel[session_id])
  THEN Raise("KeyError")
  ELSE Ok((CHOOSE sh \in {excel[session_id][i] : i \in DOMAIN excel[session_id]} :
             sh.sheet_name = sheet_name).df)

\* ------------------------------------------- building the tasks of a batch
Task(sheet_name, df, s) ==
  [sheet_name |-> sheet_name, df |-> df, chart_type |-> s.chart_type,
   x |-> s.x, y |-> s.y, desc |-> s.description]

\* [s for s in suggestions if s.get("chart_type") in allowed_types]
RECURSIVE filter_suggestions(_, _)
filter_suggestions(suggestions, allowed_types) ==
  IF suggestions = <<>> THEN <<>>
  ELSE (IF Head(suggestions).chart_type.s \in allowed_types
        THEN <<Head(suggestions)>> ELSE <<>>)
       \o filter_suggestions(Tail(suggestions), allowed_types)

\* if user_filters and sheet_name in user_filters: ...
apply_user_filters(suggestions, sheet_name, user_filters) ==
  IF DOMAIN user_filters # {} /\ sheet_name \in DOMAIN user_filters
  THEN filter_suggestions(suggestions, user_filters[sheet_name])
  ELSE suggestions

sheet_tasks(sheet_name, df, suggestions) ==
  [k \in DOMAIN suggestions |-> Task(sheet_name, df, suggestions[k])]

\* step 2 of suggest_visualizations_for_all_sheets of viz_service.py:
\* [exc, val (the tasks), asked (the sheets the oracle was asked about),
\* left (the sheets the loop did not reach)]
RECURSIVE ai_build_tasks(_, _, _, _, _, _)
ai_build_tasks(sheets, replies, user_filters, client, tasks, asked) ==
  IF sheets = <<>>
  THEN [exc |-> "none", val |-> tasks, asked |-> asked, left |-> 0]
  ELSE LET df == prepare_df_for_viz(Head(sheets).df)
           got == ai_get_viz_suggestions_for_df(df, client, Head(replies))
           now == asked + (IF client THEN 1 ELSE 0)
       IN IF got.exc # "none"
          THEN [exc |-> got.exc, val |-> <<>>, asked |-> now,
                left |-> Len(Tail(sheets))]
          ELSE ai_build_tasks(
                 Tail(sheets), Tail(replies), user_filters, client,
                 tasks \o sheet_tasks(Head(sheets).sheet_name, df,
                          apply_user_filters(got.val, Head(sheets).sheet_name,
                                             user_filters)),
                 now)

\* step 2 of suggest_visualizations_for_all_sheets of manual_viz_service.py
RECURSIVE manual_build_tasks(_, _, _)
manual_build_tasks(sheets, user_filters, tasks) ==
  IF sheets = <<>>
  THEN [exc |-> "none", val |-> tasks, asked |-> 0, left |-> 0]
  ELSE LET df == prepare_df_for_viz(Head(sheets).df)
           got == manual_get_viz_suggestions_for_df(df)
       IN IF got.exc # "none"
          THEN [exc |-> got.exc, val |-> <<>>, asked |-> 0,
                left |-> Len(Tail(sheets))]
          ELSE manual_build_tasks(
                 Tail(sheets), user_filters,
                 tasks \o sheet_tasks(Head(sheets).sheet_name, df,
                          apply_user_filters(got.val, Head(sheets).sheet_name,
                                             user_filters)))

\* ------------------------------------------- collecting a batch's results
\* the results in the order in which the workers finished
map_results_mut(rendered, order) ==
  [k \in DOMAIN order |-> rendered[order[k]]]

\* list(executor.map(_render_chart_process, tasks)): the results in the
\* order of the tasks, whatever the order in which the workers finished
map_results(rendered, order) == [i \in DOMAIN rendered |-> rendered[i]]

\* step 4: group the results by sheet, one VizConfig per result
RECURSIVE collect_results(_, _)
collect_results(results, final_result) ==
  IF results = <<>> THEN Ok(final_result)
  ELSE LET r == Head(results)
           made == VizConfig(r.chart_type, r.x, r.y, r.desc, r.img)
           sofar == IF r.sheet_name \in DOMAIN final_result
                    THEN final_result[r.sheet_name] ELSE <<>>
       IN IF made.exc # "none" THEN Raise(made.exc)
          ELSE collect_results(
                 Tail(results),
                 Put(final_result, r.sheet_name, Append(sofar, made.val)))

\* the loop of suggest_visualizations: render and wrap each suggestion in turn
RECURSIVE single_sheet_loop(_, _, _, _)
single_sheet_loop(df, suggestions, draws, viz_results) ==
  IF suggestions = <<>> THEN Ok(viz_results)
  ELSE LET item == Head(suggestions)
           img == generate_chart(df, item.chart_type, item.x, item.y,
                                 Head(draws))
       IN IF img.exc # "none" THEN Raise(img.exc)
          ELSE LET made == VizConfig(item.chart_type, item.x, item.y,
                                     item.description, img.val)
               IN IF made.exc # "none" THEN Raise(made.exc)
                  ELSE single_sheet_loop(df, Tail(suggestions), Tail(draws),
                                         Append(viz_results, made.val))

\* ------------------------------------------------------------------ inputs
\* raw candidates an oracle may answer with
i_bar_amt     == Dict(JStr(s_bar), JStr(n_amt), JNull, JStr(<<"a">>))
i_BAR_amt     == Dict(JStr(<<" ","B","A","R"," ">>), JStr(n_amt), JMissing,
                      JMissing)
i_Scatter_amt == Dict(JStr(<<"S","c","a","t","t","e","r">>), JStr(n_amt),
                      JNull, JStr(<<"b">>))
i_line_day    == Dict(JStr(s_line), JStr(n_day), JStr(n_amt), JStr(<<"c">>))
i_pie_amt     == Dict(JStr(<<"p","i","e">>), JStr(n_amt), JNull, JStr(<<"d">>))
i_hist_zzz    == Dict(JStr(s_histogram), JStr(n_zzz), JNull, JStr(<<"e">>))
i_bar_amt_zzz == Dict(JStr(s_bar), JStr(n_amt), JStr(n_zzz), JStr(<<"f">>))
i_bar_listx   == Dict(JStr(s_bar), JList(<<"[","'","a","m","t","'","]">>),
                      JNull, JStr(<<"g">>))
i_bar_objy    == Dict(JStr(s_bar), JStr(n_reg), JObj(<<"{","}">>),
                      JStr(<<"h">>))
i_notype_amt  == Dict(JMissing, JStr(n_amt), JNull, JStr(<<"i">>))
i_count_reg   == Dict(JStr(s_countplot), JStr(n_reg), JNull, JNull)
i_hist_Id     == Dict(JStr(s_histogram), JStr(n_Id), JNull, JStr(<<"j">>))

ItemPool ==
  {i_bar_amt, i_BAR_amt, i_Scatter_amt, i_line_day, i_pie_amt, i_hist_zzz,
   i_bar_amt_zzz, i_bar_listx, i_bar_objy, i_notype_amt, i_count_reg,
   i_hist_Id, NonDict}

\* ------------------------------------------------------------------- state
VARIABLES
  client,            \* viz_service.client: TRUE when a credential is configured
  EXCEL_CACHE,       \* excel_reader_service._EXCEL_CACHE
  VIZ_CACHE_MANUAL,  \* viz_cache._VIZ_CACHE_MANUAL
  VIZ_CACHE_AI,      \* viz_cache._VIZ_CACHE_AI
  req,               \* the request being served, or the last one served
  sheet_in,          \* single-table specification: the inputs
  sheet_out,         \* single-table specification: the function applied
  threads            \* interleaving specification: the request of each thread

vars == <<client, EXCEL_CACHE, VIZ_CACHE_MANUAL, VIZ_CACHE_AI, req,
          sheet_in, sheet_out, threads>>

NoFilters == <<>>

Request(pc, op, mode, session_id, sheet_name, user_filters) ==
  [pc |-> pc, op |-> op, mode |-> mode, session_id |-> session_id,
   sheet_name |-> sheet_name, user_filters |-> user_filters,
   hit |-> FALSE, asked |-> 0, built |-> FALSE, tasks |-> <<>>,
   rendered |-> <<>>,
   order |-> <<>>, exc |-> "none", ret |-> <<>>]

Idle == Request("idle", "none", "none", "none", "none", NoFilters)

\* ---------------------------------------------------- the system's inputs
wb_amt   == <<Sheet("A", <<c_amt>>)>>
wb_reg   == <<Sheet("A", <<c_reg>>)>>
wb_dates == <<Sheet("A", <<c_day>>)>>
wb_empty == <<>>
wb_two   == <<Sheet("A", <<c_amt, c_reg>>), Sheet("B", <<c_qty>>)>>

\* the uploads: each session id is new, and is given one workbook
Uploads ==
  {<<"s1", wb_amt>>, <<"s1", wb_dates>>, <<"s1", wb_empty>>,
   <<"s2", wb_reg>>}

\* the session ids and sheet names of requests ("s0": never uploaded)
SessionIds == {"s0", "s1", "s2"}
SheetIds == {"A", "B"}

UserFilters == {NoFilters, [n \in {"A"} |-> {s_histogram}]}

SysReplies ==
  {ReplyApiError,
   ReplyNullContent,
   ReplyJSON(PyList(<<i_BAR_amt, i_Scatter_amt>>))}

\* ----------------------------------------------------------------- actions
\* upload_excel -> load_excel_for_session(session_id, file_path), with a
\* session id that was never used before
Upload(session_id, sheets) ==
  /\ req.pc # "rendering"
  /\ session_id \notin DOMAIN EXCEL_CACHE
  /\ EXCEL_CACHE' = Put(EXCEL_CACHE, session_id, sheets)
  /\ UNCHANGED <<client, VIZ_CACHE_MANUAL, VIZ_CACHE_AI, req, sheet_in,
                 sheet_out, threads>>

\* the sheets of a session once the calls _prepare_df_for_viz(df_raw) for
\* the sheets at the positions touched have returned
sheets_after_prepare(sheets, touched) ==
  [i \in DOMAIN sheets |->
     IF i \in touched
     THEN [sheets[i] EXCEPT !.df = df_raw_after_prepare(@)]
     ELSE sheets[i]]

\* what a call of suggest_visualizations_for_all_sheets does before it
\* starts the worker pool, given the cache lookup and the tasks built
\* (steps 1 and 2, and the return of an empty batch)
StartAll(r0, cached, sheet_dfs, built) ==
  LET stored == store_visualizations(VIZ_CACHE_MANUAL, VIZ_CACHE_AI,
                                     r0.session_id, <<>>, "<not passed>")
      looped == Put(EXCEL_CACHE, r0.session_id,
                    sheets_after_prepare(
                      sheet_dfs, 1..(Len(sheet_dfs) - built.left)))
  IN IF CacheTruthy(cached)
     THEN /\ req' = [r0 EXCEPT !.pc = "returned", !.hit = TRUE,
                               !.ret = cached.val]
          /\ UNCHANGED <<EXCEL_CACHE, VIZ_CACHE_MANUAL, VIZ_CACHE_AI>>
     ELSE IF sheet_dfs = <<>>
     THEN /\ req' = [r0 EXCEPT !.pc = "raised", !.exc = "KeyError"]
          /\ UNCHANGED <<EXCEL_CACHE, VIZ_CACHE_MANUAL, VIZ_CACHE_AI>>
     ELSE IF built.exc # "none"
     THEN /\ req' = [r0 EXCEPT !.pc = "raised", !.exc = built.exc,
                               !.asked = built.asked]
          /\ EXCEL_CACHE' = looped
          /\ UNCHANGED <<VIZ_CACHE_MANUAL, VIZ_CACHE_AI>>
     ELSE IF built.val = <<>>
     THEN /\ req' = IF stored.exc # "none"
                    THEN [r0 EXCEPT !.pc = "raised", !.exc = stored.exc,
                                    !.asked = built.asked, !.built = TRUE]
                    ELSE [r0 EXCEPT !.pc = "returned",
                                    !.asked = built.asked, !.built = TRUE]
          /\ EXCEL_CACHE' = looped
          /\ VIZ_CACHE_MANUAL' = stored.manual
          /\ VIZ_CACHE_AI' = stored.ai
     ELSE /\ req' = [r0 EXCEPT !.pc = "rendering", !.tasks = built.val,
                               !.asked = built.asked, !.built = TRUE]
          /\ EXCEL_CACHE' = looped
          /\ UNCHANGED <<VIZ_CACHE_MANUAL, VIZ_CACHE_AI>>

\* _EXCEL_CACHE.get(session_id)
SheetsOf(session_id) ==
  IF session_id \in DOMAIN EXCEL_CACHE THEN EXCEL_CACHE[session_id] ELSE <<>>

\* suggest_visualizations_for_all_sheets(session_id, user_filters) of
\* manual_viz_service.py
ManualSuggestAll(session_id, user_filters) ==
  /\ req.pc # "rendering"
  /\ StartAll(Request("idle", "all", "manual", session_id, "none",
                      user_filters),
              get_cached_visualizations(VIZ_CACHE_MANUAL, VIZ_CACHE_AI,
                                        session_id, "manual"),
              SheetsOf(session_id),
              manual_build_tasks(SheetsOf(session_id), user_filters, <<>>))
  /\ UNCHANGED <<client, sheet_in, sheet_out, threads>>

\* suggest_visualizations_for_all_sheets(session_id, user_filters) of
\* viz_service.py. replies: what the oracle answers for each sheet.
AiSuggestAll(session_id, user_filters, replies) ==
  /\ req.pc # "rendering"
  /\ StartAll(Request("idle", "all", "ai", session_id, "none", user_filters),
              get_cached_visualizations(VIZ_CACHE_MANUAL, VIZ_CACHE_AI,
                                        session_id, "ai"),
              SheetsOf(session_id),
              ai_build_tasks(SheetsOf(session_id), replies, user_filters,
                             client, <<>>, 0))
  /\ UNCHANGED <<client, sheet_in, sheet_out, threads>>

\* one worker of the pool finishes one task of the batch
RenderTask(i, draws) ==
  /\ req.pc = "rendering"
  /\ i \in DOMAIN req.tasks
  /\ i \notin DOMAIN req.rendered
  /\ req' = [req EXCEPT
       !.rendered = Put(req.rendered, i,
                        render_chart_process(req.tasks[i], draws)),
       !.order = Append(req.order, i)]
  /\ UNCHANGED <<client, EXCEL_CACHE, VIZ_CACHE_MANUAL, VIZ_CACHE_AI,
                 sheet_in, sheet_out, threads>>

\* the first exception among the results, in the order of the tasks
first_exc(rendered) ==
  IF \E i \in DOMAIN rendered : rendered[i].exc # "none"
  THEN rendered[CHOOSE i \in DOMAIN rendered :
                  /\ rendered[i].exc # "none"
                  /\ \A j \in DOMAIN rendered :
                       rendered[j].exc # "none" => i <= j].exc
  ELSE "none"

\* steps 3 to 5 once every worker is done: gather, group, store, return
Collect ==
  /\ req.pc = "rendering"
  /\ DOMAIN req.rendered = DOMAIN req.tasks
  /\ LET failed == first_exc(req.rendered)
         results == map_results([i \in DOMAIN req.rendered |->
                                   req.rendered[i].val], req.order)
         final_result == collect_results(results, <<>>)
         stored == store_visualizations(VIZ_CACHE_MANUAL, VIZ_CACHE_AI,
                     req.session_id, final_result.val, req.mode)
     IN IF failed # "none"
        THEN /\ req' = [req EXCEPT !.pc = "raised",
                                   !.exc = failed]
             /\ UNCHANGED <<VIZ_CACHE_MANUAL, VIZ_CACHE_AI>>
        ELSE IF final_result.exc # "none"
        THEN /\ req' = [req EXCEPT !.pc = "raised",
                                   !.exc = final_result.exc]
             /\ UNCHANGED <<VIZ_CACHE_MANUAL, VIZ_CACHE_AI>>
        ELSE /\ req' = IF stored.exc # "none"
                       THEN [req EXCEPT !.pc = "raised",
                                        !.exc = stored.exc]
                       ELSE [req EXCEPT !.pc = "returned",
                                        !.ret = final_result.val]
             /\ VIZ_CACHE_MANUAL' = stored.manual
             /\ VIZ_CACHE_AI' = stored.ai
  /\ UNCHANGED <<client, EXCEL_CACHE, sheet_in, sheet_out, threads>>

\* suggest_visualizations(session_id, sheet_name) of viz_service.py, from
\* the table get_sheet_df returned: [exc, val (the VizConfigs), suggestions]
suggest_visualizations_df(df_raw, cl, reply, draws) ==
  LET df == prepare_df_for_viz(df_raw)
      suggestions == ai_get_viz_suggestions_for_df(df, cl, reply)
      viz_results == single_sheet_loop(df, suggestions.val, draws, <<>>)
  IN IF suggestions.exc # "none"
     THEN [exc |-> suggestions.exc, val |-> <<>>, suggestions |-> <<>>]
     ELSE [exc |-> viz_results.exc, val |-> viz_results.val,
           suggestions |-> suggestions.val]

SuggestSingle(session_id, sheet_name, reply, draws) ==
  /\ req.pc # "rendering"
  /\ LET r0 == Request("idle", "single", "ai", session_id, sheet_name,
                       NoFilters)
         df_raw == get_sheet_df(EXCEL_CACHE, session_id, sheet_name)
         got == suggest_visualizations_df(df_raw.val, client, reply, draws)
         asked == IF client THEN 1 ELSE 0
     IN req' =
          IF df_raw.exc # "none"
          THEN [r0 EXCEPT !.pc = "raised", !.exc = df_raw.exc]
          ELSE IF got.exc # "none"
          THEN [r0 EXCEPT !.pc = "raised", !.exc = got.exc, !.asked = asked]
          ELSE [r0 EXCEPT !.pc = "returned", !.ret = got.val,
                          !.asked = asked]
  /\ EXCEL_CACHE' =
       IF get_sheet_df(EXCEL_CACHE, session_id, sheet_name).exc # "none"
       THEN EXCEL_CACHE
       ELSE Put(EXCEL_CACHE, session_id,
                sheets_after_prepare(
                  SheetsOf(session_id),
                  {i \in DOMAIN SheetsOf(session_id) :
                     SheetsOf(session_id)[i].sheet_name = sheet_name}))
  /\ UNCHANGED <<client, VIZ_CACHE_MANUAL, VIZ_CACHE_AI,
                 sheet_in, sheet_out, threads>>

\* the threads that call suggest_visualizations_for_all_sheets at once
Threads == {"t1", "t2"}
NoThreads == [t \in Threads |-> Idle]

NoSheetIn == [df |-> <<>>, raw |-> PyNone, reply |-> ReplyApiError]
NoSheetOut == [fn |-> "none", res |-> Ok(<<>>)]

Init ==
  /\ client \in BOOLEAN
  /\ EXCEL_CACHE = <<>>
  /\ VIZ_CACHE_MANUAL = <<>>
  /\ VIZ_CACHE_AI = <<>>
  /\ req = Idle
  /\ sheet_in = NoSheetIn
  /\ sheet_out = NoSheetOut
  /\ threads = NoThreads

\* the sheets of a session the oracle is asked about by an all-sheets call
\* that misses the cache
AskedSheets(session_id) ==
  IF client /\ ~CacheTruthy(get_cached_visualizations(
                  VIZ_CACHE_MANUAL, VIZ_CACHE_AI, session_id, "ai"))
  THEN DOMAIN SheetsOf(session_id) ELSE {}

\* the replies that matter to a single-sheet call
AskedReplies == IF client THEN SysReplies ELSE {ReplyApiError}

\* the suggestions a single-sheet call gets, one drawing outcome for each
SingleDraws(session_id, sheet_name, reply) ==
  LET df_raw == get_sheet_df(EXCEL_CACHE, session_id, sheet_name)
      got == ai_get_viz_suggestions_for_df(prepare_df_for_viz(df_raw.val),
                                           client, reply)
  IN [DOMAIN got.val -> BOOLEAN]

Next ==
  \/ \E u \in Uploads : Upload(u[1], u[2])
  \/ \E session_id \in SessionIds, user_filters \in UserFilters :
       ManualSuggestAll(session_id, user_filters)
  \/ \E session_id \in SessionIds, user_filters \in UserFilters :
       \E replies \in [AskedSheets(session_id) -> AskedReplies] :
         AiSuggestAll(session_id, user_filters, replies)
  \/ \E i \in DOMAIN req.tasks, draws \in BOOLEAN : RenderTask(i, draws)
  \/ Collect
  \/ \E session_id \in SessionIds, sheet_name \in SheetIds,
        reply \in AskedReplies :
       \E draws \in SingleDraws(session_id, sheet_name, reply) :
         SuggestSingle(session_id, sheet_name, reply, draws)

Spec == Init /\ [][Next]_vars

\* ------------------------------------------------- the worker-pool system
\* One session whose workbook has two sheets with charts, so that a batch
\* holds several tasks of one sheet and tasks of several sheets.
PoolReplies ==
  {ReplyApiError,
   ReplyJSON(PyList(<<i_BAR_amt, i_Scatter_amt>>)),
   ReplyProseObj(i_count_reg)}

InitPool ==
  /\ client \in BOOLEAN
  /\ EXCEL_CACHE = [session_id \in {"s1"} |-> wb_two]
  /\ VIZ_CACHE_MANUAL = <<>>
  /\ VIZ_CACHE_AI = <<>>
  /\ req = Idle
  /\ sheet_in = NoSheetIn
  /\ sheet_out = NoSheetOut
  /\ threads = NoThreads

PoolAskedReplies == IF client THEN PoolReplies ELSE {ReplyApiError}

NextPool ==
  \/ ManualSuggestAll("s1", NoFilters)
  \/ \E replies \in [AskedSheets("s1") -> PoolAskedReplies] :
       AiSuggestAll("s1", NoFilters, replies)
  \/ \E i \in DOMAIN req.tasks, draws \in BOOLEAN : RenderTask(i, draws)
  \/ Collect

SpecPool == InitPool /\ [][NextPool]_vars

\* ------------------------------------------------ the single-table system
\* The functions of the pipeline applied to one table and one oracle reply.
SheetTables ==
  {<<>>, <<c_amt>>, <<c_reg>>, <<c_day>>, <<c_amt, c_reg>>, <<c_reg, c_amt>>,
   <<c_day, c_amt>>, <<c_amt, c_qty>>, <<c_Id, c_amt>>,
   <<c_amt, c_reg, c_day>>}

\* a list of n candidates with n different valid keys for the table
\* <<c_amt, c_reg, c_day>>
LongLen == 14

LongTypes == <<s_histogram, s_bar, s_countplot>>
LongNames == <<n_amt, n_reg, n_day>>

LongItem(k) ==
  Dict(JStr(LongTypes[(k % 3) + 1]),
       JStr(LongNames[((k \div 3) % 3) + 1]),
       IF k < 9 THEN JNull ELSE JStr(n_amt),
       JStr(LongTypes[(k % 3) + 1] \o LongNames[((k \div 3) % 3) + 1]))

LongRaw(n) == [k \in 1..n |-> LongItem(k - 1)]

RECURSIVE SeqsUpTo(_, _)
SeqsUpTo(S, n) ==
  IF n = 0 THEN {<<>>}
  ELSE LET shorter == SeqsUpTo(S, n - 1)
       IN shorter \cup {Append(q, e) : q \in shorter, e \in S}

RawValues ==
  {PyNone, PyOther("dict", TRUE), PyOther("dict", FALSE),
   PyOther("num", TRUE), PyOther("str", TRUE)}
  \cup {PyList(items) : items \in SeqsUpTo(ItemPool, MaxRaw)}
  \cup {PyList(LongRaw(n)) : n \in (LongLen - 3)..LongLen}
  \cup {PyList(<<LongItem(3)>> \o LongRaw(LongLen))}
  \cup {PyList(LongRaw(LongLen) \o <<i_bar_listx>>)}

\* the replies that carry a raw value
RepliesOf(raw) ==
  {ReplyJSON(raw)}
  \cup (IF raw = PyNone
        THEN {ReplyApiError, ReplyNoChoices, ReplyNullContent, ReplyGarbage}
        ELSE {})
  \cup (IF raw.t = "list" /\ Len(raw.items) = 1 /\ raw.items[1].isdict
        THEN {ReplyProseList(raw.items), ReplyProseObj(raw.items[1]),
              ReplyNotedObj(raw.items[1])}
        ELSE {})

InitSheet ==
  /\ \E df \in SheetTables, raw \in RawValues :
       \E reply \in RepliesOf(raw) :
         sheet_in = [df |-> df, raw |-> raw, reply |-> reply]
  /\ client \in (IF sheet_in.raw = PyNone THEN BOOLEAN ELSE {TRUE})
  /\ EXCEL_CACHE = <<>>
  /\ VIZ_CACHE_MANUAL = <<>>
  /\ VIZ_CACHE_AI = <<>>
  /\ req = Idle
  /\ sheet_out = NoSheetOut
  /\ threads = NoThreads

Apply(fn, res) ==
  /\ sheet_out.fn = "none"
  /\ sheet_out' = [fn |-> fn, res |-> res]
  /\ UNCHANGED <<client, EXCEL_CACHE, VIZ_CACHE_MANUAL, VIZ_CACHE_AI, req,
                 sheet_in, threads>>

ApplyAiValidator ==
  Apply("ai_clean_and_validate_suggestions",
        ai_clean_and_validate_suggestions(sheet_in.df, sheet_in.raw))

ApplyManualValidator ==
  Apply("manual_clean_and_validate_suggestions",
        manual_clean_and_validate_suggestions(sheet_in.df, sheet_in.raw))

ApplyFallback ==
  Apply("_fallback_suggestions",
        Ok(_fallback_suggestions(prepare_df_for_viz(sheet_in.df))))

ApplyAsk ==
  Apply("ask_llm_for_visualizations",
        ask_llm_for_visualizations(client, sheet_in.reply))

ApplyAiSuggestions ==
  Apply("ai_get_viz_suggestions_for_df",
        ai_get_viz_suggestions_for_df(sheet_in.df, client, sheet_in.reply))

ApplyManualSuggestions ==
  Apply("manual_get_viz_suggestions_for_df",
        manual_get_viz_suggestions_for_df(sheet_in.df))

\* the drawing outcomes tried for n charts: every combination for a short
\* list, all drawn or none drawn for a long one
DrawsFor(n) ==
  IF n <= MaxRaw THEN [1..n -> BOOLEAN]
  ELSE {[k \in 1..n |-> TRUE], [k \in 1..n |-> FALSE]}

ApplySuggestVisualizations(draws) ==
  Apply("suggest_visualizations",
        suggest_visualizations_df(sheet_in.df, client, sheet_in.reply, draws))

NextSheet ==
  \/ ApplyAiValidator
  \/ ApplyManualValidator
  \/ ApplyFallback
  \/ ApplyAsk
  \/ ApplyAiSuggestions
  \/ ApplyManualSuggestions
  \/ \E draws \in DrawsFor(Len(ai_get_viz_suggestions_for_df(
                     sheet_in.df, client, sheet_in.reply).val)) :
       ApplySuggestVisualizations(draws)

SpecSheet == InitSheet /\ [][NextSheet]_vars

\* ----------------------------------------------------- the typing system
\* Type inference, the rule-based generator, the fallback and the summary
\* applied to one table: every table of at most two of ten columns, and
\* three tables of three columns. Beside the columns above: utc, text
\* timestamps with the UTC offset; paid_date, sku and uid, text columns.
TypeTables ==
  LET TypeColumns ==
        {c_amt, c_qty, c_reg, c_Id, c_day, c_Date,
         [Column(<<"u","t","c">>, "object", 10, 6, 10) EXCEPT !.utc = TRUE],
         Column(<<"p","a","i","d","_","d","a","t","e">>, "object", 10, 4, 0),
         Column(<<"s","k","u">>, "object", 10, 10, 0),
         Column(<<"u","i","d">>, "object", 10, 4, 0)}
  IN {<<>>}
     \cup {<<a>> : a \in TypeColumns}
     \cup {df \in {<<a, b>> : a \in TypeColumns, b \in TypeColumns} :
             df[1] # df[2]}
     \cup {<<c_amt, c_qty, c_day>>, <<c_day, c_amt, c_qty>>,
           <<c_day, c_Date, c_amt>>}

InitTypes ==
  /\ \E df \in TypeTables :
       sheet_in = [df |-> df, raw |-> PyNone, reply |-> ReplyApiError]
  /\ client = FALSE
  /\ EXCEL_CACHE = <<>>
  /\ VIZ_CACHE_MANUAL = <<>>
  /\ VIZ_CACHE_AI = <<>>
  /\ req = Idle
  /\ sheet_out = NoSheetOut
  /\ threads = NoThreads

\* generate_manual_suggestions calls get_column_datatype on the prepared table
ApplyGetColumnDatatype ==
  Apply("get_column_datatype",
        get_column_datatype(prepare_df_for_viz(sheet_in.df)))

ApplyGenerateManualSuggestions ==
  Apply("generate_manual_suggestions",
        generate_manual_suggestions(prepare_df_for_viz(sheet_in.df)))

\* get_statistical_summary reads the stored table
ApplyStatisticalSummary ==
  Apply("get_statistical_summary", Ok(get_statistical_summary(sheet_in.df)))

NextTypes ==
  \/ ApplyGetColumnDatatype
  \/ ApplyGenerateManualSuggestions
  \/ ApplyStatisticalSummary
  \/ ApplyFallback

SpecTypes == InitTypes /\ [][NextTypes]_vars

\* ------------------------------------------------- the interleaving system
\* Two threads call suggest_visualizations_for_all_sheets for session "s1"
\* at once. A call reads the cache and then works on values of its own
\* (steps 1 to 4), and writes the cache in step 5; the steps of the two calls
\* interleave.

\* what steps 1 to 4 of a call come to, given the cache lookup and the tasks
\* built: the cached value, an exception, or the grouped VizConfigs computed.
\* Drawing a given chart of a given table gives the same image in both
\* calls; here every chart is drawn.
RaceOutcome(r0, cached, sheet_dfs, built) ==
  LET rendered == [i \in DOMAIN built.val |->
                     render_chart_process(built.val[i], TRUE)]
      final_result ==
        collect_results(map_results([i \in DOMAIN rendered |-> rendered[i].val],
                                    [i \in DOMAIN rendered |-> i]),
                        <<>>)
      r1 == [r0 EXCEPT !.asked = built.asked, !.built = TRUE]
  IN IF CacheTruthy(cached)
     THEN [r0 EXCEPT !.pc = "returned", !.hit = TRUE, !.ret = cached.val]
     ELSE IF sheet_dfs = <<>>
     THEN [r0 EXCEPT !.pc = "raised", !.exc = "KeyError"]
     ELSE IF built.exc # "none"
     THEN [r0 EXCEPT !.pc = "raised", !.exc = built.exc,
                     !.asked = built.asked]
     ELSE IF built.val = <<>>
     THEN [r1 EXCEPT !.pc = "raised",
                     !.exc = store_visualizations(
                               VIZ_CACHE_MANUAL, VIZ_CACHE_AI, r0.session_id,
                               <<>>, "<not passed>").exc]
     ELSE IF first_exc(rendered) # "none"
     THEN [r1 EXCEPT !.pc = "raised", !.exc = first_exc(rendered),
                     !.tasks = built.val]
     ELSE IF final_result.exc # "none"
     THEN [r1 EXCEPT !.pc = "raised", !.exc = final_result.exc,
                     !.tasks = built.val]
     ELSE [r1 EXCEPT !.pc = "computed", !.ret = final_result.val,
                     !.tasks = built.val]

\* steps 1 to 4 of the call of thread t
RaceCompute(t, mode, replies) ==
  /\ threads[t].pc = "idle"
  /\ threads' = [threads EXCEPT ![t] =
       RaceOutcome(
         Request("idle", "all", mode, "s1", "none", NoFilters),
         get_cached_visualizations(VIZ_CACHE_MANUAL, VIZ_CACHE_AI, "s1", mode),
         SheetsOf("s1"),
         IF mode = "manual"
         THEN manual_build_tasks(SheetsOf("s1"), NoFilters, <<>>)
         ELSE ai_build_tasks(SheetsOf("s1"), replies, NoFilters, client,
                             <<>>, 0))]
  /\ UNCHANGED <<client, EXCEL_CACHE, VIZ_CACHE_MANUAL, VIZ_CACHE_AI, req,
                 sheet_in, sheet_out>>

\* step 5 of the call of thread t: store the result and return it
RaceStore(t) ==
  /\ threads[t].pc = "computed"
  /\ LET stored == store_visualizations(VIZ_CACHE_MANUAL, VIZ_CACHE_AI, "s1",
                                        threads[t].ret, threads[t].mode)
     IN /\ VIZ_CACHE_MANUAL' = stored.manual
        /\ VIZ_CACHE_AI' = stored.ai
        /\ threads' = [threads EXCEPT ![t].pc = "returned"]
  /\ UNCHANGED <<client, EXCEL_CACHE, req, sheet_in, sheet_out>>

InitRace ==
  /\ client \in BOOLEAN
  /\ \E sheets \in {wb_amt, wb_reg} :
       EXCEL_CACHE = [session_id \in {"s1"} |-> sheets]
  /\ VIZ_CACHE_MANUAL = <<>>
  /\ VIZ_CACHE_AI = <<>>
  /\ req = Idle
  /\ sheet_in = NoSheetIn
  /\ sheet_out = NoSheetOut
  /\ threads = NoThreads

NextRace ==
  \/ \E t \in Threads, mode \in {"manual", "ai"} :
       \E replies \in [DOMAIN SheetsOf("s1") -> AskedReplies] :
         RaceCompute(t, mode, replies)
  \/ \E t \in Threads : RaceStore(t)

SpecRace == InitRace /\ [][NextRace]_vars

\* ===================================================================
\* Properties of the single-table pipeline, checked under SpecSheet

ValidatorFns ==
  {"ai_clean_and_validate_suggestions", "manual_clean_and_validate_suggestions"}

SuggestionFns ==
  {"ai_get_viz_suggestions_for_df", "manual_get_viz_suggestions_for_df"}

\* the five chart types a chart may have, and the two that plot y against x
FiveChartTypes == {s_histogram, s_scatter, s_bar, s_countplot, s_line}
TwoAxisChartTypes == {s_scatter, s_line}

\* every entry of a list of suggestions or VizConfigs names columns of df
ReferencesOnlyColumns(list, df) ==
  \A k \in DOMAIN list :
    /\ list[k].x.t = "str"
    /\ list[k].x.s \in Columns(df)
    /\ \/ list[k].y.t = "null"
       \/ list[k].y.t = "str" /\ list[k].y.s \in Columns(df)

\* C1: every suggestion a validator returns (rule-based or oracle-assisted),
\* every suggestion either pipeline hands to the renderer and every VizConfig
\* of suggest_visualizations has x equal to a column name of the table and y
\* null or a column name of the table
C1_OnlyTableColumns ==
  (/\ sheet_out.fn \in ValidatorFns \cup SuggestionFns
                       \cup {"suggest_visualizations"}
   /\ sheet_out.res.exc = "none")
  => ReferencesOnlyColumns(sheet_out.res.val, sheet_in.df)

\* the oracle-assisted validator was given a candidate whose x is no column,
\* a candidate whose y is no column and a candidate that is fine, and kept
\* the last one only
C1_Witness ==
  /\ sheet_out.fn = "ai_clean_and_validate_suggestions"
  /\ sheet_in.df = <<c_amt, c_reg>>
  /\ sheet_in.raw \in {PyList(<<i_hist_zzz, i_bar_amt>>),
                       PyList(<<i_bar_amt_zzz, i_bar_amt>>)}
  /\ sheet_out.res = Ok(<<i_bar_amt>>)

\* the (chart_type, x, y) triple of a raw candidate after normalisation
NormalizedTriple(item) ==
  <<Lower(Strip(PyStr(Get(item, "chart_type", JStr(<<>>))))),
    Get(item, "x", JNull),
    IF IsNone(Get(item, "y", JNull)) THEN JNull ELSE Get(item, "y", JNull)>>

HasTriple(item, triple) == item.isdict /\ NormalizedTriple(item) = triple

\* the index of the first candidate of items with the triple
FirstOccurrence(items, triple) ==
  CHOOSE i \in DOMAIN items :
    /\ HasTriple(items[i], triple)
    /\ \A j \in 1..(i - 1) : ~HasTriple(items[j], triple)

TripleOf(entry) == <<entry.chart_type.s, entry.x, entry.y>>

\* C2: the output of a validator holds no two entries with the same
\* (chart_type, x, y); each entry is the first input candidate with its
\* normalised triple (it carries that candidate's description), and the
\* entries are in the order of those candidates in the input
C2_NoDuplicatesFirstOccurrence ==
  (sheet_out.fn \in ValidatorFns /\ sheet_out.res.exc = "none")
  => LET out == sheet_out.res.val
         items == sheet_in.raw.items
         src(k) == FirstOccurrence(items, TripleOf(out[k]))
     IN /\ \A k \in DOMAIN out :
             \E i \in DOMAIN items : HasTriple(items[i], TripleOf(out[k]))
        /\ \A k \in DOMAIN out :
             out[k].description
               = Get(items[src(k)], "description", JStr(<<>>))
        /\ \A k1, k2 \in DOMAIN out : k1 < k2 => src(k1) < src(k2)
        /\ \A k1, k2 \in DOMAIN out :
             k1 # k2 => TripleOf(out[k1]) # TripleOf(out[k2])

\* two candidates with the same normalised triple and different
\* descriptions: the first one survives, alone
C2_Witness ==
  /\ sheet_out.fn = "ai_clean_and_validate_suggestions"
  /\ sheet_in.df = <<c_amt>>
  /\ sheet_in.raw = PyList(<<i_BAR_amt, i_bar_amt>>)
  /\ sheet_out.res = Ok(<<Dict(JStr(s_bar), JStr(n_amt), JNull, JStr(<<>>))>>)

\* C3: every VizConfig returned by suggest_visualizations and every
\* suggestion either pipeline turns into a VizConfig (from the oracle, the
\* rule-based generator or the fallback list) has one of the five chart
\* types, and a y that is not null when the type is scatter or line
C3_KnownTypesAndRequiredY ==
  (/\ sheet_out.fn \in SuggestionFns \cup {"suggest_visualizations"}
   /\ sheet_out.res.exc = "none")
  => \A k \in DOMAIN sheet_out.res.val :
       LET c == sheet_out.res.val[k]
       IN /\ c.chart_type.t = "str"
          /\ c.chart_type.s \in FiveChartTypes
          /\ c.chart_type.s \in TwoAxisChartTypes => c.y.t = "str"

\* the oracle answered with a scatter chart that has no y and a bar chart:
\* suggest_visualizations returned the bar chart only
C3_Witness ==
  /\ sheet_out.fn = "suggest_visualizations"
  /\ sheet_in.df = <<c_amt, c_qty>>
  /\ sheet_in.reply = ReplyJSON(PyList(<<i_Scatter_amt, i_bar_amt>>))
  /\ Len(sheet_out.res.val) = 1
  /\ sheet_out.res.val[1].chart_type = JStr(s_bar)

\* C4: whatever the oracle returns, the oracle-assisted pipeline returns a
\* list of suggestions and suggest_visualizations raises nothing
C4_PipelineNeverRaises ==
  sheet_out.fn \in {"ask_llm_for_visualizations",
                    "ai_get_viz_suggestions_for_df", "suggest_visualizations"}
  => sheet_out.res.exc = "none"

\* the oracle cannot be asked, or asking it fails
OracleUnavailable == ~client \/ sheet_in.reply.kind = "api_error"

\* a candidate the table accepts
AcceptableCandidate(item, df) ==
  /\ item.isdict
  /\ LET triple == NormalizedTriple(item)
     IN /\ triple[1] \in FiveChartTypes
        /\ triple[2].t = "str" /\ triple[2].s \in Columns(df)
        /\ \/ triple[3].t = "null"
           \/ triple[3].t = "str" /\ triple[3].s \in Columns(df)
        /\ triple[1] \in TwoAxisChartTypes => triple[3].t = "str"

\* the oracle's output is empty, is no list, or holds no acceptable candidate
NothingAcceptable ==
  \/ sheet_in.raw.t # "list"
  \/ \A i \in DOMAIN sheet_in.raw.items :
       ~AcceptableCandidate(sheet_in.raw.items[i], sheet_in.df)

SameSuggestions(list, suggestions) ==
  /\ Len(list) = Len(suggestions)
  /\ \A k \in DOMAIN list :
       /\ list[k].chart_type = suggestions[k].chart_type
       /\ list[k].x = suggestions[k].x
       /\ list[k].y = suggestions[k].y
       /\ list[k].description = suggestions[k].description

\* C5: when the oracle is unavailable ask_llm_for_visualizations returns
\* None without raising and suggest_visualizations returns, without raising,
\* exactly the VizConfigs of the fallback suggestions of the table; a
\* pipeline that does not raise uses the same fallback when the oracle's
\* output is empty or holds nothing that survives validation
C5_FallbackWhenOracleGivesNothing ==
  LET expected == _fallback_suggestions(prepare_df_for_viz(sheet_in.df))
  IN /\ (sheet_out.fn = "ask_llm_for_visualizations" /\ OracleUnavailable)
        => sheet_out.res = Ok(PyNone)
     /\ (sheet_out.fn = "suggest_visualizations" /\ OracleUnavailable)
        => /\ sheet_out.res.exc = "none"
           /\ SameSuggestions(sheet_out.res.val, expected)
     /\ (/\ sheet_out.fn \in {"ai_get_viz_suggestions_for_df",
                              "suggest_visualizations"}
         /\ sheet_out.res.exc = "none"
         /\ NothingAcceptable)
        => SameSuggestions(sheet_out.res.val, expected)

\* the oracle answered with a pie chart only: validation left nothing and
\* suggest_visualizations returned the two fallback charts of the table
C5_Witness ==
  /\ sheet_out.fn = "suggest_visualizations"
  /\ client
  /\ sheet_in.df = <<c_amt, c_reg>>
  /\ sheet_in.raw = PyList(<<i_pie_amt>>)
  /\ sheet_out.res.exc = "none"
  /\ Len(sheet_out.res.val) = 2
  /\ sheet_out.res.val[1].chart_type = JStr(s_histogram)
  /\ sheet_out.res.val[2].chart_type = JStr(s_countplot)

\* ===================================================================
\* Properties of the cache, checked under Spec

\* the cache of a mode
CacheOf(mode) == IF mode = "manual" THEN VIZ_CACHE_MANUAL ELSE VIZ_CACHE_AI

\* a step that serves a new all-sheets call
ServesAllSheetsCall ==
  req.pc # "rendering" /\ req' # req /\ req'.op = "all"

\* no step changes or removes an entry a cache holds, and a call for a
\* (session, mode) whose result is stored returns the stored value, having
\* asked no oracle, built no task and rendered nothing
StoredResultStep ==
  /\ \A s \in DOMAIN VIZ_CACHE_MANUAL :
       s \in DOMAIN VIZ_CACHE_MANUAL'
       /\ VIZ_CACHE_MANUAL'[s] = VIZ_CACHE_MANUAL[s]
  /\ \A s \in DOMAIN VIZ_CACHE_AI :
       s \in DOMAIN VIZ_CACHE_AI' /\ VIZ_CACHE_AI'[s] = VIZ_CACHE_AI[s]
  /\ (ServesAllSheetsCall /\ req'.session_id \in DOMAIN CacheOf(req'.mode))
     => /\ req'.pc = "returned"
        /\ req'.hit
        /\ req'.ret = CacheOf(req'.mode)[req'.session_id]
        /\ req'.asked = 0
        /\ ~req'.built
        /\ req'.tasks = <<>>
        /\ req'.rendered = <<>>

\* C6: once a call for a (session, mode) has stored its result, every later
\* call for the same (session, mode) returns that stored value without
\* generating suggestions, asking the oracle or rendering, and no later
\* operation changes or removes the stored entry
C6_StoredResultIsFinal == [][StoredResultStep]_vars

\* a call was answered from the cache
C6_Witness ==
  /\ req.op = "all"
  /\ req.pc = "returned"
  /\ req.hit
  /\ req.session_id \in DOMAIN CacheOf(req.mode)
  /\ req.ret = CacheOf(req.mode)[req.session_id]
  /\ DOMAIN req.ret # {}

\* C7: a call for a session that has sheets but for which no task is built
\* stores the empty mapping for its (session, mode) and returns the empty
\* mapping without raising
C7_EmptyBatchIsStored ==
  (/\ req.op = "all"
   /\ req.built
   /\ req.tasks = <<>>
   /\ req.pc \in {"returned", "raised"})
  => /\ req.pc = "returned"
     /\ req.ret = <<>>
     /\ req.session_id \in DOMAIN CacheOf(req.mode)
     /\ CacheOf(req.mode)[req.session_id] = <<>>

\* the entry of session s differs between two values of a cache
EntryChanged(before, after, s) ==
  \/ (s \in DOMAIN before) # (s \in DOMAIN after)
  \/ /\ s \in DOMAIN before
     /\ s \in DOMAIN after
     /\ before[s] # after[s]

\* a step changes an entry of a cache only when it ends a call of that
\* cache's mode for that session, and gives the entry the value the call
\* returns; a call answered from a cache gets the entry of its own mode
NamespaceStep ==
  /\ \A s \in SessionIds :
       EntryChanged(VIZ_CACHE_MANUAL, VIZ_CACHE_MANUAL', s)
       => /\ req.pc = "rendering" /\ req.mode = "manual"
          /\ req.session_id = s
          /\ req'.pc = "returned"
          /\ VIZ_CACHE_MANUAL'[s] = req'.ret
  /\ \A s \in SessionIds :
       EntryChanged(VIZ_CACHE_AI, VIZ_CACHE_AI', s)
       => /\ req.pc = "rendering" /\ req.mode = "ai"
          /\ req.session_id = s
          /\ req'.pc = "returned"
          /\ VIZ_CACHE_AI'[s] = req'.ret
  /\ DOMAIN VIZ_CACHE_MANUAL' \subseteq SessionIds
  /\ DOMAIN VIZ_CACHE_AI' \subseteq SessionIds
  /\ (ServesAllSheetsCall /\ req'.hit /\ req'.mode = "manual")
     => req'.ret = VIZ_CACHE_MANUAL[req'.session_id]
  /\ (ServesAllSheetsCall /\ req'.hit /\ req'.mode = "ai")
     => req'.ret = VIZ_CACHE_AI[req'.session_id]

\* C8: storing a result changes only the entry of that session in that
\* mode's cache; every entry of the other mode and of every other session
\* stays as it is, and a cached result is returned for its own mode only
C8_NamespacesIndependent == [][NamespaceStep]_vars

\* a session holds a rule-based result and a different oracle-assisted
\* result at the same time, next to another session's result, and a
\* rule-based call has just been answered with the rule-based one
C8_Witness ==
  /\ "s1" \in DOMAIN VIZ_CACHE_MANUAL
  /\ "s1" \in DOMAIN VIZ_CACHE_AI
  /\ VIZ_CACHE_MANUAL["s1"] # VIZ_CACHE_AI["s1"]
  /\ "s2" \in DOMAIN VIZ_CACHE_AI
  /\ "s2" \notin DOMAIN VIZ_CACHE_MANUAL
  /\ req.hit
  /\ req.mode = "manual"
  /\ req.session_id = "s1"
  /\ req.ret = VIZ_CACHE_MANUAL["s1"]

\* ===================================================================
\* Properties of a batch, checked under SpecPool

\* the indices, in increasing order, of the tasks of one sheet
RECURSIVE TasksOfSheet(_, _, _)
TasksOfSheet(tasks, sheet, i) ==
  IF i > Len(tasks) THEN <<>>
  ELSE (IF tasks[i].sheet_name = sheet THEN <<i>> ELSE <<>>)
       \o TasksOfSheet(tasks, sheet, i + 1)

\* the mapping holds, for each sheet with tasks, one VizConfig per task of
\* the sheet, in the order of the tasks, with the task's fields and the image
\* the worker made for that task; a sheet without tasks is no key
GroupedByTask(mapping) ==
  /\ DOMAIN mapping \subseteq SheetIds
  /\ \A sheet \in SheetIds :
       LET idx == TasksOfSheet(req.tasks, sheet, 1)
       IN IF idx = <<>>
          THEN sheet \notin DOMAIN mapping
          ELSE /\ sheet \in DOMAIN mapping
               /\ Len(mapping[sheet]) = Len(idx)
               /\ \A k \in DOMAIN idx :
                    LET t == req.tasks[idx[k]]
                        c == mapping[sheet][k]
                    IN /\ c.chart_type = t.chart_type
                       /\ c.x = t.x
                       /\ c.y = t.y
                       /\ c.description = t.desc
                       /\ c.image_base64 = req.rendered[idx[k]].val.img

\* C9: whatever the order in which the workers finish, the mapping a call
\* returns and caches holds, for each sheet with at least one task, exactly
\* one VizConfig per task of that sheet, in the sheet's suggestion order,
\* with that task's chart_type, x, y, description and image; sheets without
\* a task are not keys
C9_GroupedInTaskOrder ==
  (req.op = "all" /\ req.pc = "returned" /\ ~req.hit)
  => /\ GroupedByTask(req.ret)
     /\ req.session_id \in DOMAIN CacheOf(req.mode)
     /\ CacheOf(req.mode)[req.session_id] = req.ret

\* a batch of three tasks of two sheets whose workers finished in the
\* reverse of the task order, one of them without an image
C9_Witness ==
  /\ req.op = "all"
  /\ req.pc = "returned"
  /\ ~req.hit
  /\ req.order = <<3, 2, 1>>
  /\ DOMAIN req.ret = {"A", "B"}
  /\ Len(req.ret["A"]) = 2
  /\ req.ret["A"][1].image_base64 = NoImage
  /\ req.ret["A"][2].image_base64 # NoImage

\* C10: no call of generate_chart raises, and a batch whose tasks have all
\* been rendered completes: the call returns a mapping with every task's
\* own result, the image being null for exactly the tasks whose rendering
\* failed
C10_RenderFailureIsIsolated ==
  /\ \A i \in DOMAIN req.rendered : req.rendered[i].exc = "none"
  /\ (/\ req.op = "all"
      /\ req.built
      /\ req.tasks # <<>>
      /\ req.pc \in {"returned", "raised"})
     => /\ req.pc = "returned"
        /\ GroupedByTask(req.ret)

\* ===================================================================
\* Properties of interleaved calls, checked under SpecRace

\* C11: two calls for the same (session, mode) that both missed the cache
\* and both stored return the same value, and the entry left in the cache
\* is the value each of them returned
C11_RaceIsBenign ==
  (/\ threads["t1"].pc = "returned" /\ ~threads["t1"].hit
   /\ threads["t2"].pc = "returned" /\ ~threads["t2"].hit
   /\ threads["t1"].mode = threads["t2"].mode)
  => /\ threads["t1"].ret = threads["t2"].ret
     /\ "s1" \in DOMAIN CacheOf(threads["t1"].mode)
     /\ CacheOf(threads["t1"].mode)["s1"] = threads["t1"].ret
     /\ CacheOf(threads["t2"].mode)["s1"] = threads["t2"].ret

\* --------------------------------------------------------------------------
\* Properties of type inference and generation, checked under SpecTypes
\* --------------------------------------------------------------------------

NameHas(col, part) == Contains(Lower(col.name), part)

\* the kind of a column by the priority order: numeric values, then temporal
\* values or a date/time name, then the count/unique and 'id' rules
KindByPriority(col) ==
  IF col.dtype = "number" THEN "numerical"
  ELSE IF col.dtype \in {"datetime", "datetimetz"}
          \/ NameHas(col, s_date) \/ NameHas(col, s_time)
  THEN "datetime"
  ELSE IF col.count = col.unique
  THEN (IF NameHas(col, s_id) THEN "primary_key" ELSE "distinct_categorical")
  ELSE (IF NameHas(col, s_id) THEN "foreign_key" ELSE "categorical")

\* C12: get_column_datatype gives every column of the table exactly one kind,
\* the one the priority order decides from that column's name and values
C12_EveryColumnGetsItsKind ==
  sheet_out.fn = "get_column_datatype"
  => LET df == prepare_df_for_viz(sheet_in.df)
     IN /\ sheet_out.res.exc = "none"
        /\ DOMAIN sheet_out.res.val = DOMAIN df
        /\ \A i \in DOMAIN df : sheet_out.res.val[i] = KindByPriority(df[i])

\* the positions of the columns of one kind
OfKind(df, kind) == {i \in DOMAIN df : KindByPriority(df[i]) = kind}

\* the proposals the rules name for a table, as (chart_type, x, y)
ProposalsFor(df) ==
  {<<JStr(s_bar), JStr(df[i].name), JNull>> : i \in OfKind(df, "categorical")}
  \cup {<<JStr(s_histogram), JStr(df[i].name), JNull>> :
          i \in OfKind(df, "numerical")}
  \cup {<<JStr(s_scatter), JStr(df[p[1]].name), JStr(df[p[2]].name)>> :
          p \in {q \in OfKind(df, "numerical") \X OfKind(df, "numerical") :
                   q[1] < q[2]}}
  \cup (IF Cardinality(OfKind(df, "datetime")) = 1
        THEN {<<JStr(s_line),
                JStr(df[CHOOSE d \in OfKind(df, "datetime") : TRUE].name),
                JStr(df[i].name)>> : i \in OfKind(df, "numerical")}
        ELSE {})

\* C13: generate_manual_suggestions returns exactly the proposals of the
\* rules, each once: a bar per categorical column, a histogram per numerical
\* column, a scatter per ordered pair of numerical columns, and a line per
\* numerical column only when exactly one datetime column exists
C13_ExactlyTheRuleProposals ==
  sheet_out.fn = "generate_manual_suggestions"
  => LET df == prepare_df_for_viz(sheet_in.df)
         list == sheet_out.res.val
     IN /\ sheet_out.res.exc = "none"
        /\ {<<list[k].chart_type, list[k].x, list[k].y>> : k \in DOMAIN list}
           = ProposalsFor(df)
        /\ Len(list) = Cardinality(ProposalsFor(df))

\* the first column of the table with one of the dtypes, when there is one
HasDtype(df, dtypes) == \E i \in DOMAIN df : df[i].dtype \in dtypes

FirstOfDtype(df, dtypes) ==
  df[CHOOSE i \in DOMAIN df :
       /\ df[i].dtype \in dtypes
       /\ \A j \in 1..(i - 1) : df[j].dtype \notin dtypes].name

\* C16: _fallback_suggestions returns at most two suggestions that the table
\* alone determines: with a numeric column, a line of the first numeric
\* column over the first datetime column when there is one and else a
\* histogram of the first numeric column; then, with a text-like column, a
\* countplot of the first text-like column
C16_FallbackIsDetermined ==
  sheet_out.fn = "_fallback_suggestions"
  => LET df == prepare_df_for_viz(sheet_in.df)
         out == sheet_out.res.val
         temporal == {"datetime", "datetimetz"}
         text_like == {"object", "category"}
         first ==
           IF ~HasDtype(df, {"number"}) THEN <<>>
           ELSE IF HasDtype(df, temporal)
           THEN <<<<JStr(s_line), JStr(FirstOfDtype(df, temporal)),
                    JStr(FirstOfDtype(df, {"number"}))>>>>
           ELSE <<<<JStr(s_histogram), JStr(FirstOfDtype(df, {"number"})),
                    JNull>>>>
         second ==
           IF HasDtype(df, text_like)
           THEN <<<<JStr(s_countplot), JStr(FirstOfDtype(df, text_like)),
                    JNull>>>>
           ELSE <<>>
     IN /\ sheet_out.res.exc = "none"
        /\ Len(out) <= 2
        /\ [k \in DOMAIN out |-> <<out[k].chart_type, out[k].x, out[k].y>>]
           = first \o second

\* a table with a date column, a text column and a numeric column: the
\* fallback is the line over the dates and the countplot of the text column
C16_Witness ==
  /\ sheet_out.fn = "_fallback_suggestions"
  /\ sheet_in.df = <<c_day, c_Date, c_amt>>
  /\ Len(sheet_out.res.val) = 2
  /\ sheet_out.res.val[1].chart_type = JStr(s_line)
  /\ sheet_out.res.val[1].x = JStr(n_day)
  /\ sheet_out.res.val[2].chart_type = JStr(s_countplot)

\* C19: the type get_statistical_summary reports for a column of a table is
\* the kind get_column_datatype gives that column of the same table
C19_SummaryTypesAreKinds ==
  sheet_out.fn = "get_statistical_summary"
  => LET kinds == get_column_datatype(sheet_in.df)
     IN /\ kinds.exc = "none"
        /\ sheet_out.res.val = kinds.val

\* --------------------------------------------------------------------------
\* Further properties of the single-table pipeline, checked under SpecSheet
\* --------------------------------------------------------------------------

\* C14: for a response received from the oracle, ask_llm_for_visualizations
\* returns the first success of: the whole text parsed; the part from the
\* first "[" to the last "]" parsed; the part from the first "{" to the last
\* "}" parsed and wrapped in a list; otherwise None. One JSON object within
\* prose comes back as the one-element list of that object.
C14_FirstSuccessInOrder ==
  (/\ sheet_out.fn = "ask_llm_for_visualizations"
   /\ client
   /\ sheet_in.reply.kind \in {"text", "null_content"})
  => LET r == sheet_in.reply
         res == sheet_out.res
     IN /\ res.exc = "none"
        /\ res.val = (IF r.full.ok THEN r.full.v
                      ELSE IF r.has_list /\ r.list.ok THEN r.list.v
                      ELSE IF r.has_obj /\ r.obj.ok THEN PyList(<<r.obj.v>>)
                      ELSE PyNone)
        /\ (~r.full.ok /\ r.has_obj /\ r.obj.ok)
           => res.val = PyList(<<r.obj.v>>)

\* the positions of the candidates that survive validation: acceptable, and
\* the first of the list with their normalised triple
Survivors(items, df) ==
  {i \in DOMAIN items :
     /\ AcceptableCandidate(items[i], df)
     /\ \A j \in 1..(i - 1) : ~HasTriple(items[j], NormalizedTriple(items[i]))}

\* the position of the k-th survivor
KthSurvivor(items, df, k) ==
  CHOOSE i \in Survivors(items, df) :
    Cardinality({j \in Survivors(items, df) : j < i}) = k - 1

\* C15: the oracle-assisted validator returns the first 12 surviving
\* candidates in input order and never more than 12; the oracle-assisted
\* list of a sheet, fallback included, has at most 12 entries; the
\* rule-based validator keeps every surviving candidate
C15_CapOfTwelve ==
  LET items == sheet_in.raw.items
      out == sheet_out.res.val
      n == Cardinality(Survivors(items, sheet_in.df))
  IN /\ (/\ sheet_out.fn = "ai_clean_and_validate_suggestions"
         /\ sheet_out.res.exc = "none")
        => /\ Len(out) = (IF n < 12 THEN n ELSE 12)
           /\ \A k \in DOMAIN out :
                TripleOf(out[k])
                  = NormalizedTriple(items[KthSurvivor(items, sheet_in.df, k)])
     /\ (/\ sheet_out.fn \in {"ai_get_viz_suggestions_for_df",
                              "suggest_visualizations"}
         /\ sheet_out.res.exc = "none")
        => Len(out) <= 12
     /\ (/\ sheet_out.fn = "manual_clean_and_validate_suggestions"
         /\ sheet_out.res.exc = "none")
        => Len(out) = n

\* a list of more than 12 candidates with different valid keys went through
\* the oracle-assisted validator, which returned the first 12
C15_Witness ==
  /\ sheet_out.fn = "ai_clean_and_validate_suggestions"
  /\ sheet_in.df = <<c_amt, c_reg, c_day>>
  /\ Cardinality(Survivors(sheet_in.raw.items, sheet_in.df)) > 12
  /\ Len(sheet_out.res.val) = 12
  /\ TripleOf(sheet_out.res.val[12]) = NormalizedTriple(sheet_in.raw.items[12])

\* --------------------------------------------------------------------------
\* Further properties of the request system, checked under Spec
\* --------------------------------------------------------------------------

\* the request that ends in this step ended with an exception
RaisedNow == req'.pc = "raised" /\ req' # req

\* the request that starts in this step finds no table: an unknown session
\* or sheet (single sheet), no loaded sheets and nothing cached (all sheets)
LookupFails ==
  /\ req.pc # "rendering"
  /\ req' # req
  /\ \/ /\ req'.op = "single"
        /\ \/ req'.session_id \notin DOMAIN EXCEL_CACHE
           \/ req'.sheet_name
                \notin SheetNames(EXCEL_CACHE[req'.session_id])
     \/ /\ req'.op = "all"
        /\ SheetsOf(req'.session_id) = <<>>
        /\ req'.session_id \notin DOMAIN CacheOf(req'.mode)

OnlyLookupFailuresStep ==
  /\ RaisedNow => req'.exc = "KeyError"
  /\ LookupFails => RaisedNow /\ req'.exc = "KeyError"
  /\ (RaisedNow /\ req'.exc = "KeyError")
     => UNCHANGED <<EXCEL_CACHE, VIZ_CACHE_MANUAL, VIZ_CACHE_AI>>

\* C17: a request that raises raises KeyError, the failure of the table
\* lookup (unknown session or sheet, or no loaded sheets), and such a request
\* leaves both render caches and the stored tables as they were
C17_OnlyLookupFailures == [][OnlyLookupFailuresStep]_vars

\* C18: no step changes a stored table: every table the table store holds
\* keeps the columns and values it was loaded with, whatever calls of the
\* pipeline are made, in single-sheet or all-sheets form and in either mode
C18_StoredTablesNeverChange ==
  [][\A session_id \in DOMAIN EXCEL_CACHE :
       /\ session_id \in DOMAIN EXCEL_CACHE'
       /\ EXCEL_CACHE'[session_id] = EXCEL_CACHE[session_id]]_vars

\* a single-sheet call returned for the table whose text column holds dates,
\* which the preparation turns into timestamps, and the stored column is
\* still text
C18_Witness ==
  /\ req.pc = "returned"
  /\ req.op = "single"
  /\ req.session_id = "s1"
  /\ req.sheet_name = "A"
  /\ "s1" \in DOMAIN EXCEL_CACHE
  /\ EXCEL_CACHE["s1"] = wb_dates
  /\ prepare_df_for_viz(EXCEL_CACHE["s1"][1].df) # EXCEL_CACHE["s1"][1].df

\* C20: the mapping an all-sheets call returns respects the allow-list of
\* that call: for a sheet the allow-list names, every VizConfig returned for
\* the sheet has a chart type of the list, also when the call was answered
\* from the cache
C20_AllowListRespected ==
  (req.pc = "returned" /\ req.op = "all")
  => \A sheet_name \in DOMAIN req.user_filters \cap DOMAIN req.ret :
       \A k \in DOMAIN req.ret[sheet_name] :
         req.ret[sheet_name][k].chart_type.s \in req.user_filters[sheet_name]

\* C21: what ask_llm_for_visualizations returns is a list or None, whatever
\* the oracle answered: never a JSON object, string, number or boolean
C21_ListOrNone ==
  (sheet_out.fn = "ask_llm_for_visualizations" /\ sheet_out.res.exc = "none")
  => sheet_out.res.val.t \in {"list", "none"}

\* the first n entries of a list
FirstEntries(list, n) == [k \in 1..(IF Len(list) < n THEN Len(list) ELSE n) |-> list[k]]

\* C22: on the same candidate list and table the two validators give the
\* same result up to the cap: when either returns, both return, and the
\* oracle-assisted output is the first 12 entries of the rule-based output
C22_SameRulesUpToCap ==
  sheet_out.fn = "ai_clean_and_validate_suggestions"
  => LET manual == manual_clean_and_validate_suggestions(sheet_in.df,
                                                         sheet_in.raw)
     IN (sheet_out.res.exc = "none" \/ manual.exc = "none")
        => /\ sheet_out.res.exc = "none"
           /\ manual.exc = "none"
           /\ sheet_out.res.val = FirstEntries(manual.val, 12)

\* the kinds of the identifier-like columns
IdLikeKinds == {"primary_key", "foreign_key", "distinct_categorical"}

\* v names a column of df whose kind is identifier-like
NamesIdLike(v, df) ==
  /\ v.t = "str"
  /\ \E i \in DOMAIN df :
       df[i].name = v.s /\ KindByPriority(df[i]) \in IdLikeKinds

\* every acceptable candidate of items on an identifier-like column of df is
\* among the entries of out
IdLikeCandidatesKept(items, df, out) ==
  \A i \in DOMAIN items :
    (/\ AcceptableCandidate(items[i], df)
     /\ \/ NamesIdLike(NormalizedTriple(items[i])[2], df)
        \/ NamesIdLike(NormalizedTriple(items[i])[3], df))
    => \E k \in DOMAIN out : TripleOf(out[k]) = NormalizedTriple(items[i])

\* C23: a well-formed candidate on a primary_key, foreign_key or
\* distinct_categorical column survives the oracle-assisted validator (below
\* the cap) and is in the list the oracle-assisted pipeline turns into render
\* tasks, while no suggestion of the rule-based pipeline has such a column as
\* x or y
C23_IdentifierColumnsNotExcluded ==
  LET out == sheet_out.res.val
      df_prepared == prepare_df_for_viz(sheet_in.df)
  IN /\ (/\ sheet_out.fn = "ai_clean_and_validate_suggestions"
         /\ sheet_out.res.exc = "none"
         /\ Len(out) < 12)
        => IdLikeCandidatesKept(sheet_in.raw.items, sheet_in.df, out)
     /\ (/\ sheet_out.fn = "ai_get_viz_suggestions_for_df"
         /\ sheet_out.res.exc = "none"
         /\ client
         /\ sheet_in.reply = ReplyJSON(sheet_in.raw)
         /\ Len(out) < 12)
        => IdLikeCandidatesKept(sheet_in.raw.items, df_prepared, out)
     /\ (/\ sheet_out.fn = "manual_get_viz_suggestions_for_df"
         /\ sheet_out.res.exc = "none")
        => \A k \in DOMAIN out :
             /\ ~NamesIdLike(out[k].x, df_prepared)
             /\ ~NamesIdLike(out[k].y, df_prepared)

\* the oracle proposed a histogram of the primary-key column Id of a table
\* that also has a numeric column, and the pipeline kept it
C23_Witness ==
  /\ sheet_out.fn = "ai_get_viz_suggestions_for_df"
  /\ sheet_in.df = <<c_Id, c_amt>>
  /\ client
  /\ sheet_in.reply = ReplyJSON(PyList(<<i_hist_Id>>))
  /\ KindByPriority(c_Id) = "primary_key"
  /\ sheet_out.res.exc = "none"
  /\ Len(sheet_out.res.val) = 1
  /\ sheet_out.res.val[1].x = JStr(n_Id)

====
